---- MODULE Spec2Model ----
(***************************************************************************)
(* Model of server/SessionManager.ts: the session registry, the child      *)
(* process handles it owns, the bounded output buffer and the termination  *)
(* escalation of kill() / shutdown().                                      *)
(*                                                                         *)
(* Strings that the code splits or concatenates are sequences of           *)
(* one-character strings.  Time is counted in seconds (the two grace       *)
(* timers of kill() are 1000 ms and 2000 ms).                              *)
(***************************************************************************)
EXTENDS Integers, Sequences, FiniteSets, TLC

\* ------------------------------------------------------------------ bounds
Ids == {"a", "b"}             \* session ids the callers use
MaxObjs == 2                  \* successful create() calls in one run (Spec)
MaxCalls == 1                 \* kill() invocations in flight at one time (Spec)
LifeObjs == 3                 \* successful create() calls in one run (SpecLife)
LifeCalls == 2                \* kill() invocations in flight at one time (SpecLife)
MaxTime == 3                  \* time horizon, in seconds
MaxWrites == 1                \* characters written to all stdins in one run
MaxChunks == 3                \* chunks delivered in one run (SpecBuf)

\* ------------------------------------------------------- program constants
MAX_OUTPUT_LINES == 200
Grace1 == 1
Grace2 == 2

\* exitCode === null
NULL == -1
\* The exit codes a child ends with.  The manager reads a code only in
\* `exitCode !== null', which 0 (the one falsy code) decides like any other.
ExitCodes == {0}
Statuses == {"idle", "working", "offline"}
EOLs == {<<"\n">>, <<"\r", "\n">>}

VARIABLES
    sessions,   \* the registry: id -> index of its SessionState, 0 when absent
    state,      \* the SessionState objects ever created, in creation order
    proc,       \* the ChildProcess of each SessionState (same index)
    calls,      \* the kill() invocations now waiting on a timer, in call order
    sds,        \* the shutdown() invocations now waiting: tag -> objects being killed
    now,        \* Date.now(), in seconds
    recv,       \* the chunks delivered to the 'data' listeners so far, in order
    EOL         \* os.EOL of the platform

vars == <<sessions, state, proc, calls, sds, now, recv, EOL>>

Objs == DOMAIN state

\* ------------------------------------------------------------ ChildProcess
\* A freshly spawned child with a pid and three pipes.
NewProcess ==
    [exited |-> FALSE, exitCode |-> NULL, killed |-> FALSE,
     stdinEnded |-> FALSE, stdin |-> <<>>, signals |-> <<>>]

\* The operating-system process is still executing: it has not exited and has
\* not been delivered SIGKILL.
Running(p) ==
    /\ ~p.exited
    /\ \A i \in DOMAIN p.signals : p.signals[i] # "SIGKILL"

\* subprocess.kill(sig): delivers sig and sets .killed when the handle is
\* still open; on an exited child it returns false and changes nothing.
processKill(p, sig) ==
    IF p.exited THEN p
    ELSE [p EXCEPT !.killed = TRUE, !.signals = Append(@, sig)]

\* stdin.end()
stdinEnd(p) == [p EXCEPT !.stdinEnded = TRUE]

\* A stdin.write() now would fail: after end() with
\* ERR_STREAM_WRITE_AFTER_END, into the pipe of an exited child with EPIPE.
\* Such a write does not throw; the stream takes nothing for the child and
\* emits 'error'.
stdinWriteError(p) == p.stdinEnded \/ p.exited

\* stdin.write(data).  .stdin is what the stream has taken for the child, in
\* call order.
stdinWrite(p, data) ==
    IF stdinWriteError(p) THEN p ELSE [p EXCEPT !.stdin = @ \o data]

\* ------------------------------------------------------------ appendOutput
\* text.split(/\r?\n/): a "\n", together with a "\r" directly before it,
\* separates two pieces; any other character (a lone "\r" too) belongs to a
\* piece.  pieces(t, lo, hi) are the pieces of t[lo..hi], where lo follows a
\* separator or is 1: the range is cut at the separator nearest its middle,
\* which keeps the recursion shallow on long chunks.
RECURSIVE pieces(_, _, _)
pieces(t, lo, hi) ==
    LET S == {i \in lo..hi : t[i] = "\n"}
    IN IF S = {} THEN <<SubSeq(t, lo, hi)>>
       ELSE LET mid == (lo + hi) \div 2
                after == {i \in S : i >= mid}
                n == IF after # {}
                     THEN CHOOSE i \in after : \A k \in after : i <= k
                     ELSE CHOOSE i \in S : \A k \in S : i >= k
                e == IF n > lo /\ t[n - 1] = "\r" THEN n - 2 ELSE n - 1
            IN pieces(t, lo, e) \o pieces(t, n + 1, hi)

splitLines(t) == pieces(t, 1, Len(t))

\* slice(-n) of a sequence, n > 0
sliceLast(s, n) ==
    IF Len(s) > n THEN SubSeq(s, Len(s) - n + 1, Len(s)) ELSE s

\* appendOutput with the trim to MAX_OUTPUT_LINES left out
appendOutput_notrim(st, text) ==
    LET lines == splitLines(text)
        pushed == [i \in 1..Len(lines) |->
                      IF i < Len(lines) THEN lines[i] \o EOL ELSE lines[i]]
    IN [st EXCEPT !.outputBuffer = @ \o pushed, !.lastActivity = now]

\* appendOutput(state, text), on the SessionState record st
appendOutput(st, text) ==
    LET lines == splitLines(text)
        pushed == [i \in 1..Len(lines) |->
                      IF i < Len(lines) THEN lines[i] \o EOL ELSE lines[i]]
        buf == st.outputBuffer \o pushed
    IN [st EXCEPT
          !.outputBuffer = IF Len(buf) > MAX_OUTPUT_LINES
                           THEN sliceLast(buf, MAX_OUTPUT_LINES) ELSE buf,
          !.lastActivity = now]

\* ------------------------------------------------------------------ create
\* create without the check for an existing id
createResult_nodup(id, spawnOk) == IF ~spawnOk THEN "SpawnError" ELSE "ok"

\* What create(id) returns or throws; spawnOk says whether spawn() handed
\* back a child with a pid.
createResult(id, spawnOk) ==
    IF sessions[id] # 0 THEN "DuplicateError"
    ELSE IF ~spawnOk THEN "SpawnError"
    ELSE "ok"

NewSession(id, pid) ==
    [id |-> id, pid |-> pid, status |-> "idle", outputBuffer |-> <<>>,
     createdAt |-> now, lastActivity |-> now]

\* create registering the session before it looks at the pid
Create_early(id, spawnOk) ==
    IF createResult(id, spawnOk) \in {"ok", "SpawnError"}
    THEN /\ state' = Append(state, NewSession(id, Len(state) + 1))
         /\ proc' = Append(proc, NewProcess)
         /\ sessions' = [sessions EXCEPT ![id] = Len(state) + 1]
         /\ UNCHANGED <<calls, sds, now, recv, EOL>>
    ELSE UNCHANGED vars

Create(id, spawnOk) ==
    IF createResult(id, spawnOk) = "ok"
    THEN /\ state' = Append(state, NewSession(id, Len(state) + 1))
         /\ proc' = Append(proc, NewProcess)
         /\ sessions' = [sessions EXCEPT ![id] = Len(state) + 1]
         /\ UNCHANGED <<calls, sds, now, recv, EOL>>
    ELSE UNCHANGED vars

\* ------------------------------------------------- listeners set by create
\* The listeners create attaches to a child it keeps: emitter and event
Listeners ==
    {<<"stdout", "data">>, <<"stderr", "data">>,
     <<"process", "exit">>, <<"process", "error">>}

\* The listeners on the child that create(id) has spawned when it returns or
\* throws.  A spawn that fails still hands back a ChildProcess, with no pid,
\* which emits 'error' on a later tick; create throws on the missing pid
\* before it attaches any listener.
createListeners(id, spawnOk) ==
    IF createResult(id, spawnOk) = "ok" THEN Listeners ELSE {}

\* stdout / stderr 'data' listener of session object o
OnData(o, text) ==
    /\ state' = [state EXCEPT ![o] = appendOutput(@, text)]
    /\ recv' = Append(recv, text)
    /\ UNCHANGED <<sessions, proc, calls, sds, now, EOL>>

\* The child exits (code # NULL) or is ended by a signal (code = NULL): the
\* handle records the exit code and the 'exit' listener of o runs.
OnExit(o, code) ==
    /\ ~proc[o].exited
    /\ Running(proc[o]) \/ code = NULL
    /\ proc' = [proc EXCEPT ![o].exited = TRUE, ![o].exitCode = code]
    /\ state' = [state EXCEPT ![o].status = "offline"]
    /\ UNCHANGED <<sessions, calls, sds, now, recv, EOL>>

\* 'error' listener of o
OnError(o) ==
    /\ state' = [state EXCEPT ![o].status = "offline"]
    /\ UNCHANGED <<sessions, proc, calls, sds, now, recv, EOL>>

\* ------------------------------------------------- sendText / sendControl
\* process.stdin of a child spawned with stdio 'pipe' is a stream object for
\* the whole life of the handle: `!state.process.stdin` is never true.
hasStdin(p) == TRUE

sendTextResult(id) ==
    IF sessions[id] = 0 THEN "NotFoundError"
    ELSE IF state[sessions[id]].status = "offline" \/ ~hasStdin(proc[sessions[id]])
         THEN "OfflineError"
    ELSE "ok"

SendText(id, text) ==
    IF sendTextResult(id) = "ok"
    THEN /\ proc' = [proc EXCEPT ![sessions[id]] = stdinWrite(@, text \o <<"\n">>)]
         /\ state' = [state EXCEPT ![sessions[id]].lastActivity = now]
         /\ UNCHANGED <<sessions, calls, sds, now, recv, EOL>>
    ELSE UNCHANGED vars

\* controlMap; the control bytes 0x03, 0x04, 0x1a are written ^C, ^D, ^Z
controlMap == [c \in {"C-c", "C-d", "C-z"} |->
                 CASE c = "C-c" -> "^C" [] c = "C-d" -> "^D" [] c = "C-z" -> "^Z"]

\* controlMap is an object literal, so controlMap[char] also finds the
\* properties it inherits from Object.prototype: these names yield a function
\* (or, for __proto__, an object), all truthy.
ObjectPrototype ==
    {"constructor", "toString", "toLocaleString", "valueOf", "hasOwnProperty",
     "isPrototypeOf", "propertyIsEnumerable", "__proto__"}

\* controlMap[char]: a control byte, an inherited non-string value, or undefined
controlLookup(char) ==
    IF char \in DOMAIN controlMap THEN controlMap[char]
    ELSE IF char \in ObjectPrototype THEN "inherited"
    ELSE "undefined"

\* What sendControl(id, char) returns or throws.  stdin.write(chunk) throws
\* ERR_INVALID_ARG_TYPE, before it buffers anything, when chunk is neither a
\* string nor a buffer.
sendControlResult(id, char) ==
    IF sessions[id] = 0 THEN "NotFoundError"
    ELSE IF state[sessions[id]].status = "offline" \/ ~hasStdin(proc[sessions[id]])
         THEN "OfflineError"
    ELSE IF controlLookup(char) = "undefined" THEN "UnknownControlError"
    ELSE IF controlLookup(char) = "inherited" THEN "TypeError"
    ELSE "ok"

SendControl(id, char) ==
    IF sendControlResult(id, char) = "ok"
    THEN /\ proc' = [proc EXCEPT ![sessions[id]] = stdinWrite(@, <<controlMap[char]>>)]
         /\ state' = [state EXCEPT ![sessions[id]].lastActivity = now]
         /\ UNCHANGED <<sessions, calls, sds, now, recv, EOL>>
    ELSE UNCHANGED vars

\* ------------------------------------------------ getOutput / getAllOutput
\* Array.prototype.slice(start) with one argument: a negative start counts
\* from the end, and -0 is 0.
slice(s, start) ==
    LET k == IF start < 0 THEN (IF Len(s) + start > 0 THEN Len(s) + start ELSE 0)
             ELSE (IF start < Len(s) THEN start ELSE Len(s))
    IN SubSeq(s, k + 1, Len(s))

\* Array.prototype.join('') of the entries lo..hi of an array of strings
RECURSIVE joinRange(_, _, _)
joinRange(s, lo, hi) ==
    IF lo > hi THEN <<>>
    ELSE IF lo = hi THEN s[lo]
    ELSE joinRange(s, lo, (lo + hi) \div 2) \o joinRange(s, (lo + hi) \div 2 + 1, hi)

join(s) == joinRange(s, 1, Len(s))

\* getOutput(id, lines) on a registered id
getOutput(id, lines) == join(slice(state[sessions[id]].outputBuffer, 0 - lines))

\* getAllOutput(id) on a registered id
getAllOutput(id) == join(state[sessions[id]].outputBuffer)

\* Whether getOutput(id, lines) returns or throws
getOutputResult(id) == IF sessions[id] = 0 THEN "NotFoundError" ELSE "ok"

\* Whether getAllOutput(id) returns or throws
getAllOutputResult(id) == IF sessions[id] = 0 THEN "NotFoundError" ELSE "ok"

\* detectPermissionPrompt and detectBypassWarning call getOutput(id, 50)
\* first and let its error through
detectPermissionPromptResult(id) == getOutputResult(id)

detectBypassWarningResult(id) == getOutputResult(id)

\* --------------------------------------------------- detecting prompts
\* Characters outside ASCII are written by their code point: u276F is the
\* selection cursor (the heavy right-pointing angle), u25CF, u25D0 and u00B7
\* are the bullets (black circle, half circle, middle dot).
Cursor == "u276F"
Bullets == {"u25CF", "u25D0", "u00B7"}

\* \s, as far as it can occur inside a line ("\n" never does)
WhiteSpace == {" ", "\t", "\r", "\f"}
\* what `.' does not match
LineTerminators == {"\n", "\r"}
\* \d
Digits == {"0", "1", "2", "3", "4", "5", "6", "7", "8", "9"}
UpperCase ==
    <<"A", "B", "C", "D", "E", "F", "G", "H", "I", "J", "K", "L", "M",
      "N", "O", "P", "Q", "R", "S", "T", "U", "V", "W", "X", "Y", "Z">>
LowerCase ==
    <<"a", "b", "c", "d", "e", "f", "g", "h", "i", "j", "k", "l", "m",
      "n", "o", "p", "q", "r", "s", "t", "u", "v", "w", "x", "y", "z">>
\* \w
WordChars ==
    {UpperCase[i] : i \in 1..26} \cup {LowerCase[i] : i \in 1..26}
        \cup Digits \cup {"_"}

\* The case folding of the i flag, on ASCII
toLower(c) ==
    IF \E i \in 1..26 : UpperCase[i] = c
    THEN LowerCase[CHOOSE i \in 1..26 : UpperCase[i] = c]
    ELSE c

lowerStr(s) == [i \in 1..Len(s) |-> toLower(s[i])]

\* String.prototype.includes
includes(s, sub) ==
    \E i \in 1..(Len(s) - Len(sub) + 1) : SubSeq(s, i, i + Len(sub) - 1) = sub

\* /phrase/i.test(s) for a literal phrase
testCI(s, phrase) == includes(lowerStr(s), lowerStr(phrase))

\* The first position from i on that holds no character of C (Len(s) + 1
\* when there is none): where a greedy C* started at i stops.
skip(s, i, C) ==
    CHOOSE j \in i..(Len(s) + 1) :
        /\ j = Len(s) + 1 \/ s[j] \notin C
        /\ \A k \in i..(j - 1) : s[k] \in C

\* String.prototype.trim
trim(s) ==
    LET W == WhiteSpace \cup LineTerminators
        keep == {i \in 1..Len(s) : s[i] \notin W}
    IN IF keep = {} THEN <<>>
       ELSE SubSeq(s, CHOOSE i \in keep : \A k \in keep : i <= k,
                      CHOOSE i \in keep : \A k \in keep : i >= k)

strDoYouWant ==
    <<"d", "o", " ", "y", "o", "u", " ", "w", "a", "n", "t", " ", "t", "o",
      " ", "p", "r", "o", "c", "e", "e", "d", "?">>
strWouldYouLike ==
    <<"w", "o", "u", "l", "d", " ", "y", "o", "u", " ", "l", "i", "k", "e",
      " ", "t", "o", " ", "p", "r", "o", "c", "e", "e", "d", "?">>
strEscToCancel ==
    <<"e", "s", "c", " ", "t", "o", " ", "c", "a", "n", "c", "e", "l">>
strCtrlGToEdit ==
    <<"c", "t", "r", "l", "-", "g", " ", "t", "o", " ", "e", "d", "i", "t">>
strWARNING ==
    <<"W", "A", "R", "N", "I", "N", "G">>
strBypassMode ==
    <<"B", "y", "p", "a", "s", "s", " ", "P", "e", "r", "m", "i", "s", "s",
      "i", "o", "n", "s", " ", "m", "o", "d", "e">>
strUnknown ==
    <<"U", "n", "k", "n", "o", "w", "n">>
ToolKeywords ==
    {<<"B", "a", "s", "h">>,
     <<"R", "e", "a", "d">>,
     <<"W", "r", "i", "t", "e">>,
     <<"E", "d", "i", "t">>,
     <<"G", "r", "e", "p">>,
     <<"G", "l", "o", "b">>,
     <<"T", "a", "s", "k">>,
     <<"W", "e", "b", "F", "e", "t", "c", "h">>,
     <<"W", "e", "b", "S", "e", "a", "r", "c", "h">>}

\* /(Do you want|Would you like) to proceed\?/i.test(line)
isQuestion(line) == testCI(line, strDoYouWant) \/ testCI(line, strWouldYouLike)

\* /Esc to cancel|ctrl-g to edit/i.test(line)
isFooter(line) == testCI(line, strEscToCancel) \/ testCI(line, strCtrlGToEdit)

\* /Esc to cancel/i.test(line)
isEscToCancel(line) == testCI(line, strEscToCancel)

\* /^\s*<cursor>/.test(line)
isSelector(line) ==
    LET i == skip(line, 1, WhiteSpace)
    IN i <= Len(line) /\ line[i] = Cursor

\* No match of a regular expression
NoMatch == [ok |-> FALSE, number |-> <<>>, label |-> <<>>]

\* line.match(/^\s*[<cursor>>]?\s*(\d+)\.\s+(.+)$/): the number and the
\* trimmed label.  After the period, \s+ must leave (.+) at least one
\* character, none of them a line terminator, up to the end of the line.
optionMatch(line) ==
    LET i0 == skip(line, 1, WhiteSpace)
        i1 == IF i0 <= Len(line) /\ line[i0] \in {Cursor, ">"} THEN i0 + 1 ELSE i0
        i2 == skip(line, i1, WhiteSpace)
        j == skip(line, i2, Digits)
        rest == SubSeq(line, j + 1, Len(line))
    IN IF /\ j > i2
          /\ j <= Len(line)
          /\ line[j] = "."
          /\ \E k \in 1..(Len(rest) - 1) :
                /\ \A q \in 1..k : rest[q] \in WhiteSpace
                /\ \A q \in (k + 1)..Len(rest) : rest[q] \notin LineTerminators
       THEN [ok |-> TRUE, number |-> SubSeq(line, i2, j - 1), label |-> trim(rest)]
       ELSE NoMatch

\* The word of the leftmost match of /[bullets]\s*(\w+)\s*\(/ in line, <<>>
\* when there is no match
toolMatch(line) ==
    LET word(i) == LET a == skip(line, i + 1, WhiteSpace)
                       b == skip(line, a, WordChars)
                       c == skip(line, b, WhiteSpace)
                   IN IF b > a /\ c <= Len(line) /\ line[c] = "("
                      THEN SubSeq(line, a, b - 1) ELSE <<>>
        hits == {i \in 1..Len(line) : line[i] \in Bullets /\ word(i) # <<>>}
    IN IF hits = {} THEN <<>>
       ELSE word(CHOOSE i \in hits : \A k \in hits : i <= k)

\* The keyword, as the line spells it, of a match of
\* /^\s*(Bash|Read|Write|Edit|Grep|Glob|Task|WebFetch|WebSearch)\s+\w+/i,
\* <<>> when there is no match
cmdMatch(line) ==
    LET a == skip(line, 1, WhiteSpace)
        ends == {b \in a..Len(line) :
                    /\ lowerStr(SubSeq(line, a, b)) \in {lowerStr(k) : k \in ToolKeywords}
                    /\ b + 1 <= Len(line)
                    /\ line[b + 1] \in WhiteSpace
                    /\ LET c == skip(line, b + 1, WhiteSpace)
                       IN c <= Len(line) /\ line[c] \in WordChars}
    IN IF ends = {} THEN <<>>
       ELSE SubSeq(line, a, CHOOSE b \in ends : TRUE)

\* Array.prototype.join('\n') of the entries lo..hi
RECURSIVE joinLines(_, _, _)
joinLines(s, lo, hi) ==
    IF lo > hi THEN <<>>
    ELSE IF lo = hi THEN s[lo]
    ELSE s[lo] \o <<"\n">> \o joinLines(s, lo + 1, hi)

\* parsePermissionPrompt returning null
NoPrompt == [found |-> FALSE, tool |-> <<>>, context |-> <<>>, options |-> <<>>]

\* the verification test with the footer and the cursor ignored
unverified_never(hasFooter, hasSelector) == FALSE

\* if (!hasFooter && !hasSelector) return null
unverified(hasFooter, hasSelector) == ~hasFooter /\ ~hasSelector

\* the option threshold at one option
tooFewOptions_one(options) == Len(options) < 1

\* if (options.length < 2) return null
tooFewOptions(options) == Len(options) < 2

Min(a, b) == IF a < b THEN a ELSE b
Max(a, b) == IF a > b THEN a ELSE b

\* the question searched for in all the lines
proceedLineIdx_anywhere(lines) ==
    LET n == Len(lines)
        asked == {i \in 1..n : isQuestion(lines[i])}
    IN IF asked = {} THEN 0 ELSE CHOOSE i \in asked : \A k \in asked : i >= k

\* The first loop of parsePermissionPrompt: from the last line down to
\* Math.max(0, lines.length - 30), leaving at the first question line.  The
\* value is proceedLineIdx + 1, and 0 when the code has -1.
proceedLineIdx(lines) ==
    LET n == Len(lines)
        asked == {i \in Max(1, n - 29)..n : isQuestion(lines[i])}
    IN IF asked = {} THEN 0 ELSE CHOOSE i \in asked : \A k \in asked : i >= k

\* parsePermissionPrompt(output).  lines[i] here is lines[i - 1] of the code;
\* p is proceedLineIdx + 1, and 0 when the code has -1.
parsePermissionPrompt(output) ==
    LET lines == splitLines(output)
        n == Len(lines)
        p == proceedLineIdx(lines)
        \* the lines the footer loop may visit: i < Math.min(n, idx + 15)
        seen == (p + 1)..Min(n, p + 14)
        footers == {i \in seen : isFooter(lines[i])}
        hasFooter == footers # {}
        \* the loop leaves at the first footer: a cursor counts only before it
        hasSelector == \E i \in seen : /\ isSelector(lines[i])
                                       /\ \A f \in footers : i < f
        \* the lines the option loop may visit: i < Math.min(n, idx + 10),
        \* up to the first "Esc to cancel"
        window == (p + 1)..Min(n, p + 9)
        escs == {i \in window : isEscToCancel(lines[i])}
        visited == {i \in window : \A f \in escs : i < f}
        optIdx == SelectSeq([i \in 1..n |-> i],
                            LAMBDA i : i \in visited /\ optionMatch(lines[i]).ok)
        options == [k \in 1..Len(optIdx) |->
                       [number |-> optionMatch(lines[optIdx[k]]).number,
                        label |-> optionMatch(lines[optIdx[k]]).label]]
        \* the tool loop: i >= Math.max(0, idx - 20), downwards
        named == {i \in Max(1, p - 20)..p :
                     toolMatch(lines[i]) # <<>> \/ cmdMatch(lines[i]) # <<>>}
        t == IF named = {} THEN 0 ELSE CHOOSE i \in named : \A k \in named : i >= k
        tool == IF t = 0 THEN strUnknown
                ELSE IF toolMatch(lines[t]) # <<>> THEN toolMatch(lines[t])
                ELSE cmdMatch(lines[t])
        \* lines.slice(Math.max(0, idx - 10), idx + 1 + options.length)
        context == trim(joinLines(lines, Max(1, p - 10), Min(n, p + Len(options))))
    IN IF p = 0 THEN NoPrompt
       ELSE IF unverified(hasFooter, hasSelector) THEN NoPrompt
       ELSE IF tooFewOptions(options) THEN NoPrompt
       ELSE [found |-> TRUE, tool |-> tool, context |-> context, options |-> options]

\* detectPermissionPrompt(id) on a registered id
detectPermissionPrompt(id) == parsePermissionPrompt(getOutput(id, 50))

\* detectBypassWarning content with either phrase
detectBypassWarning_either(id) ==
    LET output == getOutput(id, 50)
    IN includes(output, strWARNING) \/ includes(output, strBypassMode)

\* detectBypassWarning(id) on a registered id
detectBypassWarning(id) ==
    LET output == getOutput(id, 50)
    IN includes(output, strWARNING) /\ includes(output, strBypassMode)

\* ------------------------------------------------ isAlive / updateStatus
\* The test isAlive makes on the handle
seenDead(p) == p.killed \/ p.exitCode # NULL

isAliveResult(id) ==
    IF sessions[id] = 0 THEN FALSE ELSE ~seenDead(proc[sessions[id]])

IsAlive(id) ==
    IF sessions[id] # 0 /\ seenDead(proc[sessions[id]])
    THEN /\ state' = [state EXCEPT ![sessions[id]].status = "offline"]
         /\ UNCHANGED <<sessions, proc, calls, sds, now, recv, EOL>>
    ELSE UNCHANGED vars

\* updateStatus reaching the session last created under the id, registered
\* or not
UpdateStatus_stale(id, status) ==
    LET own == {o \in Objs : state[o].id = id}
    IN IF own # {}
       THEN /\ state' = [state EXCEPT
                           ![CHOOSE o \in own : \A q \in own : q <= o] =
                               [@ EXCEPT !.status = status, !.lastActivity = now]]
            /\ UNCHANGED <<sessions, proc, calls, sds, now, recv, EOL>>
       ELSE UNCHANGED vars

UpdateStatus(id, status) ==
    IF sessions[id] # 0
    THEN /\ state' = [state EXCEPT ![sessions[id]].status = status,
                                   ![sessions[id]].lastActivity = now]
         /\ UNCHANGED <<sessions, proc, calls, sds, now, recv, EOL>>
    ELSE UNCHANGED vars

list == {sessions[id] : id \in Ids} \ {0}

\* get(id): the SessionState object of id, 0 for undefined
get(id) == sessions[id]

\* -------------------------------------------------------------------- kill
\* The frame of one kill(id) that found its session: the captured state
\* object, the await it is suspended at, when its timer is due, and the
\* shutdown() call awaiting it (0: none).
NewCall(id, o, sd) ==
    [id |-> id, obj |-> o, pc |-> "wait1", deadline |-> now + Grace1, sd |-> sd]

Kill(id) ==
    IF sessions[id] = 0 THEN UNCHANGED vars
    ELSE /\ proc' = [proc EXCEPT ![sessions[id]] = stdinEnd(@)]
         /\ calls' = Append(calls, NewCall(id, sessions[id], 0))
         /\ UNCHANGED <<sessions, state, sds, now, recv, EOL>>

RemoveAt(s, k) == SubSeq(s, 1, k - 1) \o SubSeq(s, k + 1, Len(s))

\* kill ending without this.sessions.delete(sessionId)
killFinish_keep(k) ==
    LET c == calls[k]
        rest == RemoveAt(calls, k)
    IN /\ state' = [state EXCEPT ![c.obj].status = "offline"]
       /\ sessions' = sessions
       /\ calls' = rest
       /\ sds' = [j \in {t \in DOMAIN sds : \E i \in DOMAIN rest : rest[i].sd = t}
                    |-> sds[j]]

\* kill ending with shutdown() resolved by the first of its kills to complete
\* (Promise.race in place of Promise.all)
killFinish_race(k) ==
    LET c == calls[k]
    IN /\ state' = [state EXCEPT ![c.obj].status = "offline"]
       /\ sessions' = [sessions EXCEPT ![c.id] = 0]
       /\ calls' = RemoveAt(calls, k)
       /\ sds' = [j \in DOMAIN sds \ {c.sd} |-> sds[j]]

\* The last statements of kill: state.status = 'offline',
\* this.sessions.delete(sessionId), and the return, which resolves the
\* promise a shutdown() may be awaiting: that shutdown returns when this was
\* the last of its kills.
killFinish(k) ==
    LET c == calls[k]
        rest == RemoveAt(calls, k)
    IN /\ state' = [state EXCEPT ![c.obj].status = "offline"]
       /\ sessions' = [sessions EXCEPT ![c.id] = 0]
       /\ calls' = rest
       /\ sds' = [j \in {t \in DOMAIN sds : \E i \in DOMAIN rest : rest[i].sd = t}
                    |-> sds[j]]

\* kill with no wait before its SIGTERM
KillTimer1_nowait(k) ==
    LET c == calls[k]
    IN /\ c.pc = "wait1"
       /\ IF ~proc[c.obj].killed
          THEN /\ proc' = [proc EXCEPT ![c.obj] = processKill(@, "SIGTERM")]
               /\ calls' = [calls EXCEPT ![k].pc = "wait2",
                                         ![k].deadline = now + Grace2]
               /\ UNCHANGED <<sessions, state, sds>>
          ELSE /\ killFinish(k)
               /\ UNCHANGED proc
       /\ UNCHANGED <<now, recv, EOL>>

\* The first timer of call k fires: `if (!state.process.killed)' and what follows
KillTimer1(k) ==
    LET c == calls[k]
    IN /\ c.pc = "wait1"
       /\ c.deadline <= now
       /\ IF ~proc[c.obj].killed
          THEN /\ proc' = [proc EXCEPT ![c.obj] = processKill(@, "SIGTERM")]
               /\ calls' = [calls EXCEPT ![k].pc = "wait2",
                                         ![k].deadline = now + Grace2]
               /\ UNCHANGED <<sessions, state, sds>>
          ELSE /\ killFinish(k)
               /\ UNCHANGED proc
       /\ UNCHANGED <<now, recv, EOL>>

\* kill waiting, after its second interval, until the child has exited
KillTimer2_untilExit(k) ==
    LET c == calls[k]
    IN /\ c.pc = "wait2"
       /\ c.deadline <= now
       /\ proc[c.obj].exited
       /\ IF ~proc[c.obj].killed
          THEN proc' = [proc EXCEPT ![c.obj] = processKill(@, "SIGKILL")]
          ELSE UNCHANGED proc
       /\ killFinish(k)
       /\ UNCHANGED <<now, recv, EOL>>

\* The second timer of call k fires
KillTimer2(k) ==
    LET c == calls[k]
    IN /\ c.pc = "wait2"
       /\ c.deadline <= now
       /\ IF ~proc[c.obj].killed
          THEN proc' = [proc EXCEPT ![c.obj] = processKill(@, "SIGKILL")]
          ELSE UNCHANGED proc
       /\ killFinish(k)
       /\ UNCHANGED <<now, recv, EOL>>

\* ---------------------------------------------------------------- shutdown
\* The registered session objects in Map order (insertion = creation order)
registered == SelectSeq([o \in 1..Len(state) |-> o],
                        LAMBDA o : sessions[state[o].id] = o)

\* A tag no waiting shutdown() carries
freshTag == CHOOSE t \in 1..(Cardinality(DOMAIN sds) + 1) : t \notin DOMAIN sds

\* shutdown() killing every session ever created, registered or not
Shutdown_all ==
    LET regs == [o \in 1..Len(state) |-> o]
        tag == freshTag
    IN IF Len(regs) = 0 THEN UNCHANGED vars
       ELSE /\ proc' = [o \in DOMAIN proc |-> stdinEnd(proc[o])]
            /\ calls' = calls \o [i \in 1..Len(regs) |->
                                    NewCall(state[regs[i]].id, regs[i], tag)]
            /\ sds' = [j \in DOMAIN sds \cup {tag} |->
                         IF j = tag THEN {regs[i] : i \in 1..Len(regs)} ELSE sds[j]]
            /\ UNCHANGED <<sessions, state, now, recv, EOL>>

\* shutdown(): every kill(id) runs to its first await in the same turn and
\* Promise.all waits for them; with nothing registered it returns at once.
Shutdown ==
    LET regs == registered
        tag == freshTag
    IN IF Len(regs) = 0 THEN UNCHANGED vars
       ELSE /\ proc' = [o \in DOMAIN proc |->
                          IF sessions[state[o].id] = o THEN stdinEnd(proc[o])
                          ELSE proc[o]]
            /\ calls' = calls \o [i \in 1..Len(regs) |->
                                    NewCall(state[regs[i]].id, regs[i], tag)]
            /\ sds' = [j \in DOMAIN sds \cup {tag} |->
                         IF j = tag THEN {regs[i] : i \in 1..Len(regs)} ELSE sds[j]]
            /\ UNCHANGED <<sessions, state, now, recv, EOL>>

\* -------------------------------------------------------------------- time
\* A due timer fires before the clock moves on.  The clock is advanced only
\* while some kill() waits on a timer: with none waiting, the passing of time
\* changes nothing but the value of later timestamps.
Tick ==
    /\ now < MaxTime
    /\ calls # <<>>
    /\ \A k \in DOMAIN calls : calls[k].deadline > now
    /\ now' = now + 1
    /\ UNCHANGED <<sessions, state, proc, calls, sds, recv, EOL>>

\* --------------------------------------------------------- specification
Texts == {<<>>}
Controls == {"C-c", "C-x", "constructor"}

\* The manager after construction, on a platform whose os.EOL is eol
Constructed(eol) ==
    /\ sessions = [id \in Ids |-> 0]
    /\ state = <<>>
    /\ proc = <<>>
    /\ calls = <<>>
    /\ sds = [j \in {} |-> {}]
    /\ now = 0
    /\ recv = <<>>
    /\ EOL = eol

\* Spec and SpecLife deliver no output, so no action of theirs reads EOL
Init == Constructed(<<"\n">>)

\* a kill started now completes within the time horizon
InTime == now + Grace1 + Grace2 <= MaxTime

\* the characters written to all stdins so far
RECURSIVE written(_)
written(o) == IF o = 0 THEN 0 ELSE Len(proc[o].stdin) + written(o - 1)

CanWrite(id, n) == sessions[id] # 0 => written(Len(proc)) + n <= MaxWrites

\* The caller's operations on the ids I with at most n sessions created
Api(I, n) ==
    \/ \E id \in I, ok \in BOOLEAN :
          /\ createResult(id, ok) = "ok" => Len(state) < n
          /\ Create(id, ok)
    \/ \E id \in I, t \in Texts : CanWrite(id, Len(t) + 1) /\ SendText(id, t)
    \/ \E id \in I, c \in Controls : CanWrite(id, 1) /\ SendControl(id, c)
    \/ \E id \in I : IsAlive(id)
    \/ \E id \in I, st \in Statuses : UpdateStatus(id, st)

\* kill and shutdown on the ids I with at most n kills in flight, their
\* timers and the clock
Termination(I, n) ==
    \/ \E id \in I :
          /\ sessions[id] # 0 => Len(calls) < n /\ InTime
          /\ Kill(id)
    \/ \E k \in DOMAIN calls : KillTimer1(k)
    \/ \E k \in DOMAIN calls : KillTimer2(k)
    \/ /\ Len(registered) # 0 => Len(calls) + Len(registered) <= n /\ InTime
       /\ Shutdown
    \/ Tick

\* What the child processes do
Children ==
    \/ \E o \in Objs, code \in ExitCodes \cup {NULL} : OnExit(o, code)
    \/ \E o \in Objs : OnError(o)

\* Every operation, on one session id
Next == Api({"a"}, MaxObjs) \/ Termination({"a"}, MaxCalls) \/ Children

Spec == Init /\ [][Next]_vars

\* Creation, termination and exits, on two session ids
NextLife ==
    \/ \E id \in Ids :
          /\ createResult(id, TRUE) = "ok" => Len(state) < LifeObjs
          /\ Create(id, TRUE)
    \/ Termination(Ids, LifeCalls)
    \/ \E o \in Objs, code \in ExitCodes \cup {NULL} : OnExit(o, code)

SpecLife == Init /\ [][NextLife]_vars

\* ------------------------------------------------- writes to one session
IoObjs == 1                   \* successful create() calls in one run (SpecIO)
IoWrites == 2                 \* characters the stdins take in one run (SpecIO)
IoTexts == {<<>>, <<"h">>}
IoControls == {"C-c", "C-d", "C-z", "C-x", "", "constructor"}

\* create, sendText, sendControl, updateStatus, isAlive and kill on the id a,
\* and the exit of its child
NextIO ==
    \/ \E ok \in BOOLEAN :
          /\ createResult("a", ok) = "ok" => Len(state) < IoObjs
          /\ Create("a", ok)
    \/ \E t \in IoTexts :
          /\ written(Len(proc)) + Len(t) + 1 <= IoWrites
          /\ SendText("a", t)
    \/ \E c \in IoControls :
          /\ written(Len(proc)) + 1 <= IoWrites
          /\ SendControl("a", c)
    \/ UpdateStatus("a", "idle")
    \/ IsAlive("a")
    \/ Termination({"a"}, 1)
    \/ \E o \in Objs, code \in ExitCodes \cup {NULL} : OnExit(o, code)

SpecIO == Init /\ [][NextIO]_vars

\* ------------------------------------------ termination with no create
\* The manager after create() has returned for the first n of the ids a, b;
\* from here on the callers terminate sessions and create none.
InitTwice ==
    \E n \in 0..2 :
        /\ now = 0
        /\ EOL = <<"\n">>
        /\ sessions = [id \in Ids |-> IF id = "a" /\ n >= 1 THEN 1
                                      ELSE IF id = "b" /\ n >= 2 THEN 2 ELSE 0]
        /\ state = SubSeq(<<NewSession("a", 1), NewSession("b", 2)>>, 1, n)
        /\ proc = SubSeq(<<NewProcess, NewProcess>>, 1, n)
        /\ calls = <<>>
        /\ sds = [j \in {} |-> {}]
        /\ recv = <<>>

NextTwice ==
    \/ Termination(Ids, LifeCalls)
    \/ \E o \in Objs, code \in ExitCodes \cup {NULL} : OnExit(o, code)
    \/ \E id \in Ids : IsAlive(id)

SpecTwice == InitTwice /\ [][NextTwice]_vars

\* The same, with the event loop's guarantees: time passes and a timer that
\* is due runs its callback.  Nothing is assumed of the children or of the
\* callers.
SpecTwiceFair ==
    /\ SpecTwice
    /\ WF_vars(Tick)
    /\ WF_vars(\E k \in DOMAIN calls : KillTimer1(k))
    /\ WF_vars(\E k \in DOMAIN calls : KillTimer2(k))

\* ------------------------------------------------- the output buffer alone
\* One session "a", created on either platform, receiving chunks.
bigChunk == [i \in 1..(2 * (MAX_OUTPUT_LINES + 1)) |->
               IF i % 2 = 1 THEN "x" ELSE "\n"]

\* MAX_OUTPUT_LINES - 1 lines: as many entries as the buffer can hold
fullChunk == [i \in 1..(2 * (MAX_OUTPUT_LINES - 1)) |->
                IF i % 2 = 1 THEN "x" ELSE "\n"]

LineChunks == {<<"x", "\n">>, <<"y", "\r", "\n">>}

BufTexts == LineChunks \cup {<<>>, <<"z">>, <<"\n">>, <<"x", "\n", "y">>,
                             <<"y", "\r">>, bigChunk, fullChunk}

\* The manager after create({id: "a"}) has returned
InitBuf ==
    /\ now = 0
    /\ EOL \in EOLs
    /\ sessions = [id \in Ids |-> IF id = "a" THEN 1 ELSE 0]
    /\ state = <<NewSession("a", 1)>>
    /\ proc = <<NewProcess>>
    /\ calls = <<>>
    /\ sds = [j \in {} |-> {}]
    /\ recv = <<>>

NextBuf == \E t \in BufTexts : Len(recv) < MaxChunks /\ OnData(1, t)

SpecBuf == InitBuf /\ [][NextBuf]_vars

\* ------------------------------------------------- the prompt detector
\* One session "a", created on either platform, whose child prints the
\* pieces of a permission prompt in any order.
MaxPrints == 4                \* chunks delivered in one run (SpecPrompt)

\* The lines of a permission prompt
lineTool ==
    <<"B", "a", "s", "h", "(", "l", "s", " ", "-", "l", "a", ")">>
lineQuestion ==
    <<"D", "o", " ", "y", "o", "u", " ", "w", "a", "n", "t", " ", "t", "o",
      " ", "p", "r", "o", "c", "e", "e", "d", "?">>
lineYesCursor ==
    <<"u276F", " ", "1", ".", " ", "Y", "e", "s">>
lineYes ==
    <<" ", " ", "1", ".", " ", "Y", "e", "s">>
lineNo ==
    <<" ", " ", "2", ".", " ", "N", "o">>
lineFooter ==
    <<"E", "s", "c", " ", "t", "o", " ", "c", "a", "n", "c", "e", "l">>

\* What the child prints at a time: the question, with or without the tool
\* line and an empty line before it, an option with or without the cursor,
\* the footer (with no newline after it)
PromptChunks ==
    {lineTool \o <<"\n", "\n">> \o lineQuestion \o <<"\n">>,
     lineQuestion \o <<"\n">>,
     lineYesCursor \o <<"\n">>, lineYes \o <<"\n">>, lineNo \o <<"\n">>,
     lineFooter}

NextPrompt == \E t \in PromptChunks : Len(recv) < MaxPrints /\ OnData(1, t)

SpecPrompt == InitBuf /\ [][NextPrompt]_vars

\* ------------------------------------------------- the detector's windows
\* One session "a", created on either platform, whose child prints a prompt
\* and lines between and after its parts.
MaxWindowChunks == 4          \* chunks delivered in one run

lineQuestionAlt ==
    <<"w", "o", "u", "l", "d", " ", "y", "o", "u", " ", "l", "i", "k", "e", " ", "t", "o", " ", "p", "r", "o", "c", "e", "e", "d", "?">>
lineCtrlG ==
    <<"c", "t", "r", "l", "-", "g", " ", "t", "o", " ", "e", "d", "i", "t">>

\* k empty lines
blank(k) == [i \in 1..k |-> "\n"]

\* The question with its two options, the first one under the cursor
promptCursor ==
    lineQuestion \o <<"\n">> \o lineYesCursor \o <<"\n">> \o lineNo \o <<"\n">>

\* The other phrasing in lower case, with its two options
promptAlt ==
    lineQuestionAlt \o <<"\n">> \o lineYesCursor \o <<"\n">> \o lineNo \o <<"\n">>

\* The question with its two options and no cursor
promptPlain ==
    lineQuestion \o <<"\n">> \o lineYes \o <<"\n">> \o lineNo \o <<"\n">>

\* A prompt and then 26 or 27 and more lines: the question is the 30th line
\* from the end, or further up
QuestionChunks == {promptCursor, promptAlt, blank(13), blank(1)}

NextQuestion ==
    \E t \in QuestionChunks : Len(recv) < MaxWindowChunks /\ OnData(1, t)

SpecQuestion == InitBuf /\ [][NextQuestion]_vars

\* A prompt with no cursor, and a footer or a cursor line 14, 15 or 16 lines
\* after the question
VerifyChunks ==
    {promptPlain, blank(11), blank(12), blank(13),
     lineFooter \o <<"\n">>, lineYesCursor \o <<"\n">>}

NextVerify ==
    \E t \in VerifyChunks : Len(recv) < MaxWindowChunks /\ OnData(1, t)

SpecVerify == InitBuf /\ [][NextVerify]_vars

\* A prompt under the cursor, and an option 9 or 10 lines after the question
\* or after a footer
OptionChunks ==
    {promptCursor, blank(6), blank(1), lineNo \o <<"\n">>,
     lineFooter \o <<"\n">>, lineCtrlG \o <<"\n">>}

NextOptions ==
    \E t \in OptionChunks : Len(recv) < MaxWindowChunks /\ OnData(1, t)

SpecOptions == InitBuf /\ [][NextOptions]_vars

\* A tool line of one of three kinds, 20 or 21 lines above the question or
\* nearer
lineBulletTool ==
    <<"u25CF", " ", "R", "e", "a", "d", "(", "x", ")">>
lineKeywordTool ==
    <<"b", "a", "s", "h", " ", "l", "s">>

ToolChunks ==
    {lineTool \o <<"\n">>, lineBulletTool \o <<"\n">>, lineKeywordTool \o <<"\n">>,
     blank(19), blank(1), promptCursor}

NextTool ==
    \E t \in ToolChunks : Len(recv) < MaxWindowChunks /\ OnData(1, t)

SpecTool == InitBuf /\ [][NextTool]_vars

\* ------------------------------------------------- the bypass warning
\* One session "a", created on either platform, whose child prints the two
\* phrases of the bypass warning and other lines.
MaxWarnChunks == 3            \* chunks delivered in one run (SpecWarn)

\* 50 lines at once
fiftyLines == [i \in 1..100 |-> IF i % 2 = 1 THEN "x" ELSE "\n"]

\* What the child prints at a time: the keyword (the line goes on), the
\* keyword in lower case, the mode phrase, one line, 50 lines
WarnChunks ==
    {strWARNING \o <<" ">>, lowerStr(strWARNING) \o <<"\n">>,
     strBypassMode \o <<"\n">>, <<"x", "\n">>, fiftyLines}

NextWarn == \E t \in WarnChunks : Len(recv) < MaxWarnChunks /\ OnData(1, t)

SpecWarn == InitBuf /\ [][NextWarn]_vars

\* ================================================================== claims
HasSig(p, sig) == \E i \in DOMAIN p.signals : p.signals[i] = sig

\* Call k returns in this step
Returns(k) == k \in DOMAIN calls /\ calls' = RemoveAt(calls, k)

\* C1: create(id) on a registered id fails with the duplicate-session error
\* and is no step at all: nothing is spawned, and the registry, the existing
\* session and its process are unchanged.
C1_DuplicateCreateFails ==
    [][\A id \in Ids, ok \in BOOLEAN :
          sessions[id] # 0 =>
              /\ createResult(id, ok) = "DuplicateError"
              /\ Create(id, ok) => UNCHANGED vars]_vars

\* A registered session that has been worked on, with room to create another
C1_Witness ==
    /\ sessions["a"] # 0
    /\ state[sessions["a"]].status = "working"
    /\ proc[sessions["a"]].stdin # <<>>
    /\ Len(state) < MaxObjs
    /\ createResult("a", TRUE) = "DuplicateError"

\* C2: a session object that has left the registry has a child process that
\* is no longer executing.
C2_RemovedOnlyAfterExit ==
    \A o \in Objs : sessions[state[o].id] # o => ~Running(proc[o])

\* C3: a kill whose child is still executing when the second grace interval
\* ends has sent SIGKILL to it by the time it returns.
C3_KillSignalIssued ==
    [][\A k \in DOMAIN calls :
          (Returns(k) /\ calls[k].pc = "wait2" /\ Running(proc[calls[k].obj]))
              => HasSig(proc'[calls[k].obj], "SIGKILL")]_vars

\* C4: once the child of a registered session has exited, by an exit code or
\* by a signal, the session is offline and isAlive(id) returns false.
C4_ExitedIsOfflineAndDead ==
    \A id \in Ids :
        (sessions[id] # 0 /\ proc[sessions[id]].exited) =>
            /\ state[sessions[id]].status = "offline"
            /\ isAliveResult(id) = FALSE

\* C5: no step takes a session object from offline to another status.
C5_OfflineTerminal ==
    [][\A o \in Objs :
          state[o].status = "offline" => state'[o].status = "offline"]_vars

\* C6: for a registered session whose child has exited (so its status has
\* become offline), sendText and sendControl fail with the offline error.
C6_OfflineRejectsWrites ==
    \A id \in Ids :
        (sessions[id] # 0 /\ proc[sessions[id]].exited) =>
            /\ sendTextResult(id) = "OfflineError"
            /\ \A c \in Controls : sendControlResult(id, c) = "OfflineError"

\* C7: kill(id) on an id that is not registered is no step at all; a kill
\* that found its session returns with that session offline and the id
\* absent from the registry.
C7_KillIdempotent ==
    [][/\ \A id \in Ids : (sessions[id] = 0 /\ Kill(id)) => UNCHANGED vars
       /\ \A k \in DOMAIN calls :
             Returns(k) =>
                 /\ state'[calls[k].obj].status = "offline"
                 /\ sessions'[calls[k].id] = 0
                 /\ calls[k].obj \notin {sessions'[id] : id \in Ids}]_vars

\* A kill has run to its end on a session: the object is out of the registry,
\* offline, its stdin ended, no kill is in flight and kill(id) would find no
\* session.
C7_Witness ==
    \E o \in Objs :
        /\ sessions[state[o].id] = 0
        /\ state[o].status = "offline"
        /\ proc[o].stdinEnded
        /\ calls = <<>>

\* C8: the output buffer of every session holds at most MAX_OUTPUT_LINES
\* entries.
C8_BufferBounded ==
    \A o \in Objs : Len(state[o].outputBuffer) <= MAX_OUTPUT_LINES

\* A chunk of more than MAX_OUTPUT_LINES lines has arrived and the buffer is full
C8_Witness ==
    /\ \E i \in DOMAIN recv : Len(splitLines(recv[i])) > MAX_OUTPUT_LINES
    /\ Len(state[1].outputBuffer) = MAX_OUTPUT_LINES

\* C9: after at most MAX_OUTPUT_LINES appends of one newline-terminated line
\* each, the buffer holds exactly those lines (under the platform's
\* terminator), in order, and nothing else.
C9_TruncationLaw ==
    ((\A i \in DOMAIN recv : recv[i] \in LineChunks) /\ Len(recv) <= MAX_OUTPUT_LINES)
        => state[1].outputBuffer =
               [i \in DOMAIN recv |-> splitLines(recv[i])[1] \o EOL]

C11_SecondShutdownNoOp ==
    [][/\ (DOMAIN sds \ DOMAIN sds' # {}) => list' = {}
       /\ list = {} => list' = {}
       /\ (list = {} /\ Shutdown) => UNCHANGED vars]_vars

\* A shutdown() of two sessions has returned after sending SIGTERM to both:
\* nothing is registered, nothing waits, and shutdown() can be called again.
C11_Witness ==
    /\ Len(state) = 2
    /\ list = {}
    /\ calls = <<>>
    /\ DOMAIN sds = {}
    /\ \A o \in Objs : proc[o].stdinEnded /\ HasSig(proc[o], "SIGTERM")

\* C12: on a registered session that is not offline, sendControl accepts
\* exactly the symbols C-c, C-d, C-z, handing the one control byte of the
\* symbol to stdin.write, and for every other symbol it fails with the
\* unknown-control error, writes nothing and leaves lastActivity unchanged.
C12_ExactlyThreeControls ==
    [][\A id \in Ids, c \in IoControls :
          (sessions[id] # 0 /\ state[sessions[id]].status # "offline") =>
              IF c \in {"C-c", "C-d", "C-z"}
              THEN /\ sendControlResult(id, c) = "ok"
                   /\ controlLookup(c) =
                          (CASE c = "C-c" -> "^C" [] c = "C-d" -> "^D" [] c = "C-z" -> "^Z")
              ELSE /\ sendControlResult(id, c) = "UnknownControlError"
                   /\ SendControl(id, c) => UNCHANGED <<proc, state>>]_vars

\* C13: for an id that is not registered, sendText, sendControl, getOutput,
\* getAllOutput, detectPermissionPrompt and detectBypassWarning fail with the
\* not-found error, get returns undefined, isAlive returns false, and each of
\* sendText, sendControl, isAlive, kill and updateStatus is no step at all:
\* the registry, every session object, every process and every pending kill
\* are unchanged.
C13_UnknownIdHandled ==
    [][\A id \in Ids :
          sessions[id] = 0 =>
              /\ sendTextResult(id) = "NotFoundError"
              /\ \A c \in IoControls : sendControlResult(id, c) = "NotFoundError"
              /\ getOutputResult(id) = "NotFoundError"
              /\ getAllOutputResult(id) = "NotFoundError"
              /\ detectPermissionPromptResult(id) = "NotFoundError"
              /\ detectBypassWarningResult(id) = "NotFoundError"
              /\ get(id) = 0
              /\ isAliveResult(id) = FALSE
              /\ \A t \in IoTexts : SendText(id, t) => UNCHANGED vars
              /\ \A c \in IoControls : SendControl(id, c) => UNCHANGED vars
              /\ IsAlive(id) => UNCHANGED vars
              /\ Kill(id) => UNCHANGED vars
              /\ \A st \in Statuses : UpdateStatus(id, st) => UNCHANGED vars]_vars

\* The id a is not registered although a session was created under it and
\* then killed: its object is still there, offline, and the clock has moved
\* on since it was last touched.
C13_Witness ==
    /\ sessions["a"] = 0
    /\ \E o \in Objs : state[o].id = "a" /\ state[o].status = "offline"
                        /\ state[o].lastActivity < now

\* C14: for a registered id and every n >= 0, getOutput(id, n) is the
\* concatenation, in buffer order, of the last min(n, buffer length) entries
\* of the buffer (the empty string for n = 0), and getAllOutput(id) equals
\* getOutput(id, n) for every n that is at least the buffer length.
LineCounts == {0, 1, 2, 50, MAX_OUTPUT_LINES, MAX_OUTPUT_LINES + 1}

C14_GetOutputLastN ==
    \A id \in Ids :
        sessions[id] # 0 =>
            LET buf == state[sessions[id]].outputBuffer
            IN \A n \in LineCounts :
                  LET k == IF n < Len(buf) THEN n ELSE Len(buf)
                  IN /\ getOutputResult(id) = "ok"
                     /\ getOutput(id, n) = joinRange(buf, Len(buf) - k + 1, Len(buf))
                     /\ n >= Len(buf) => getAllOutput(id) = getOutput(id, n)

\* C15: every sendText(id, text) that returns without an error has put text
\* and one newline on the stdin of the session, every sendControl that
\* returns without an error has put its one control byte there, and what a
\* stdin holds changes in no other way, so that it is the concatenation of
\* the successful writes in call order.
C15_WritesAsIssued ==
    [][/\ \A id \in Ids, t \in IoTexts :
             (sendTextResult(id) = "ok" /\ SendText(id, t)) =>
                 proc'[sessions[id]].stdin = proc[sessions[id]].stdin \o t \o <<"\n">>
       /\ \A id \in Ids, c \in IoControls :
             (sendControlResult(id, c) = "ok" /\ SendControl(id, c)) =>
                 proc'[sessions[id]].stdin = proc[sessions[id]].stdin \o <<controlMap[c]>>
       /\ \A o \in Objs :
             \/ proc'[o].stdin = proc[o].stdin
             \/ \E t \in IoTexts :
                   sendTextResult(state[o].id) = "ok" /\ SendText(state[o].id, t)
             \/ \E c \in IoControls :
                   sendControlResult(state[o].id, c) = "ok" /\ SendControl(state[o].id, c)]_vars

\* The lines of the output that the detector reads for session a
promptLines == splitLines(getOutput("a", 50))

\* C16: with the buffer holding the lines "Bash(ls -la)", "", "Do you want to
\* proceed?", "<cursor> 1. Yes", "  2. No", "Esc to cancel",
\* detectPermissionPrompt returns a prompt whose tool is Bash and whose
\* options are number 1, label Yes and then number 2, label No.
C16_ScenarioPrompt ==
    promptLines = <<lineTool, <<>>, lineQuestion, lineYesCursor, lineNo, lineFooter>>
        => /\ detectPermissionPromptResult("a") = "ok"
           /\ detectPermissionPrompt("a").found
           /\ detectPermissionPrompt("a").tool = <<"B", "a", "s", "h">>
           /\ detectPermissionPrompt("a").options =
                  <<[number |-> <<"1">>, label |-> <<"Y", "e", "s">>],
                    [number |-> <<"2">>, label |-> <<"N", "o">>]>>

\* The most recent question line of the output, 0 when there is none
lastQuestion ==
    LET asked == {i \in 1..Len(promptLines) : isQuestion(promptLines[i])}
    IN IF asked = {} THEN 0 ELSE CHOOSE i \in asked : \A k \in asked : i >= k

\* The numbered option lines after line q, in output order
optionLinesAfter(q) ==
    SelectSeq([i \in 1..Len(promptLines) |-> i],
              LAMBDA i : i > q /\ optionMatch(promptLines[i]).ok)

\* C17: a prompt that detectPermissionPrompt returns has at least 2 options,
\* and they are the first numbered option lines after the question, in
\* output order; when fewer than 2 of the 10 lines after the question are
\* numbered option lines, no prompt is returned, footer or cursor or not.
C17_AtLeastTwoOptions ==
    LET r == detectPermissionPrompt("a")
        q == lastQuestion
        opts == optionLinesAfter(q)
    IN /\ r.found =>
              /\ q # 0
              /\ Len(r.options) >= 2
              /\ Len(r.options) <= Len(opts)
              /\ \A k \in 1..Len(r.options) :
                     /\ r.options[k].number = optionMatch(promptLines[opts[k]]).number
                     /\ r.options[k].label = optionMatch(promptLines[opts[k]]).label
       /\ (q # 0 /\ Cardinality({i \in 1..Len(opts) : opts[i] <= q + 10}) < 2)
              => ~r.found

\* The question, one option under the cursor and the footer: no prompt
C17_Witness ==
    /\ promptLines = <<lineQuestion, lineYesCursor, lineFooter>>
    /\ ~detectPermissionPrompt("a").found

\* C18: when none of the 15 lines after the question holds a footer phrase
\* or starts with the selection cursor, no prompt is returned, however many
\* numbered option lines follow the question.
C18_NeedsFooterOrCursor ==
    LET q == lastQuestion
    IN (/\ q # 0
        /\ \A i \in (q + 1)..Min(Len(promptLines), q + 15) :
               ~isFooter(promptLines[i]) /\ ~isSelector(promptLines[i]))
           => ~detectPermissionPrompt("a").found

\* The question and two numbered options, with no footer and no cursor
C18_Witness ==
    /\ promptLines = <<lineQuestion, lineYes, lineNo, <<>>>>
    /\ Len(optionLinesAfter(1)) = 2
    /\ ~detectPermissionPrompt("a").found

\* The concatenation of the last 50 entries of the buffer of session a
recentOutput ==
    LET buf == state[sessions["a"]].outputBuffer
    IN joinRange(buf, Max(1, Len(buf) - 49), Len(buf))

\* C19: detectBypassWarning(a) is true exactly when WARNING and Bypass
\* Permissions mode both occur in the concatenation of the last 50 entries
\* of the buffer.
C19_BypassWarningBoth ==
    /\ detectBypassWarningResult("a") = "ok"
    /\ detectBypassWarning("a") <=>
           (includes(recentOutput, strWARNING) /\ includes(recentOutput, strBypassMode))

\* Both phrases are in the buffer, the keyword more than 50 entries back:
\* no warning is detected
C19_Witness ==
    /\ includes(getAllOutput("a"), strWARNING)
    /\ includes(recentOutput, strBypassMode)
    /\ ~includes(recentOutput, strWARNING)
    /\ ~detectBypassWarning("a")

\* C20: every asynchronous error of a child has a listener of the manager
\* waiting for it: the 'error' event of a child whose spawn failed, and the
\* 'error' event of the stdin of a session when a sendText or sendControl
\* that passes the guards writes to an ended stream or a closed pipe; and
\* the 'error' listener of the child turns the session offline.
C20_AsyncErrorsCaptured ==
    [][/\ \A id \in Ids :
             createResult(id, FALSE) = "SpawnError" =>
                 <<"process", "error">> \in createListeners(id, FALSE)
       /\ \A id \in Ids :
             (/\ sessions[id] # 0
              /\ sendTextResult(id) = "ok"
              /\ stdinWriteError(proc[sessions[id]]))
                 => <<"stdin", "error">> \in Listeners
       /\ \A o \in Objs : OnError(o) => state'[o].status = "offline"]_vars

\* C21: on an id that is not registered, create either fails with the spawn
\* error when spawn hands back no pid, and is then no step at all (the id
\* stays unregistered), or it succeeds and the id is registered, when it
\* returns, with a new session that is idle, has an empty buffer and carries
\* the pid of its new child; nothing else changes.
C21_CreateAllOrNothing ==
    [][\A id \in Ids :
          sessions[id] = 0 =>
              /\ createResult(id, FALSE) = "SpawnError"
              /\ Create(id, FALSE) => UNCHANGED vars
              /\ createResult(id, TRUE) = "ok"
              /\ Create(id, TRUE) =>
                     LET o == Len(state) + 1
                     IN /\ sessions' = [sessions EXCEPT ![id] = o]
                        /\ Len(state') = o /\ Len(proc') = o
                        /\ state'[o].id = id
                        /\ state'[o].status = "idle"
                        /\ state'[o].outputBuffer = <<>>
                        /\ state'[o].pid = o
                        /\ proc'[o] = NewProcess
                        /\ \A q \in Objs : state'[q] = state[q] /\ proc'[q] = proc[q]
                        /\ UNCHANGED <<calls, sds, now>>]_vars

\* create(a) has just returned: a is registered with an idle session, an
\* empty buffer and a child nothing has touched
C21_Witness ==
    /\ sessions["a"] # 0
    /\ state[sessions["a"]] = NewSession("a", sessions["a"])
    /\ proc[sessions["a"]] = NewProcess

\* What the child has printed so far, as one string
stream == join(recv)

\* t with each line terminator ("\n", or "\r\n") replaced by the platform's
withPlatformEOL(t) ==
    LET lines == splitLines(t)
    IN join([i \in 1..Len(lines) |->
                IF i < Len(lines) THEN lines[i] \o EOL ELSE lines[i]])

\* The number of buffer entries the first k chunks have pushed
RECURSIVE pushedCount(_)
pushedCount(k) ==
    IF k = 0 THEN 0 ELSE pushedCount(k - 1) + Len(splitLines(recv[k]))

\* C22: as long as the chunks received have pushed no more entries than the
\* buffer holds, getAllOutput is the concatenation of the chunks in arrival
\* order with each line terminator replaced by the platform's, wherever the
\* chunk boundaries fell.
C22_RoundTrip ==
    pushedCount(Len(recv)) <= MAX_OUTPUT_LINES
        => getAllOutput("a") = withPlatformEOL(stream)

\* C27: the concatenated buffer is a suffix of the stream received (under the
\* platform's terminator) that starts at the beginning of a line.  Chunk
\* boundaries inside a line terminator, which C22 is about, are left out.
C27_EvictsWholeLines ==
    (\A i \in DOMAIN recv : recv[i] = <<>> \/ recv[i][Len(recv[i])] # "\r")
        => LET all == withPlatformEOL(stream)
               buf == getAllOutput("a")
               k == Len(all) - Len(buf)
           IN /\ k >= 0
              /\ buf = SubSeq(all, k + 1, Len(all))
              /\ k = 0 \/ all[k] = "\n"

\* Every session object other than A keeps its state (buffer, status,
\* lastActivity, pid), its process handle and, when it is registered, its
\* registry entry
OthersUntouched(A) ==
    \A B \in Objs \ {A} :
        /\ state'[B] = state[B]
        /\ proc'[B] = proc[B]
        /\ sessions[state[B].id] = B => sessions'[state[B].id] = B

\* C23: a step that is an operation or a callback on one session (an output
\* chunk, an exit, an error, sendText, sendControl, updateStatus, isAlive, a
\* kill from its call to its return) leaves every other session as it was.
C23_SessionsIndependent ==
    [][/\ \A o \in Objs :
             (\/ \E t \in LineChunks : OnData(o, t)
              \/ \E code \in ExitCodes \cup {NULL} : OnExit(o, code)
              \/ OnError(o))
                 => OthersUntouched(o)
       /\ \A id \in Ids :
             (/\ sessions[id] # 0
              /\ \/ \E t \in IoTexts : SendText(id, t)
                 \/ \E c \in IoControls : SendControl(id, c)
                 \/ \E st \in Statuses : UpdateStatus(id, st)
                 \/ IsAlive(id)
                 \/ Kill(id))
                 => OthersUntouched(sessions[id])
       /\ \A k \in DOMAIN calls :
             (calls[k].sd = 0 /\ (KillTimer1(k) \/ KillTimer2(k)))
                 => OthersUntouched(calls[k].obj)]_vars

\* Call k goes from its first wait to its second in this step: it has called
\* process.kill('SIGTERM')
AttemptsSIGTERM(k) ==
    /\ calls[k].pc = "wait1"
    /\ calls' = [calls EXCEPT ![k].pc = "wait2", ![k].deadline = now + Grace2]

\* Call k returns from its second wait in this step, having called
\* process.kill('SIGKILL') if the handle was not marked killed
EndsSecondWait(k) == calls[k].pc = "wait2" /\ Returns(k)

\* The steps of the escalation, in their order:
\* a kill that starts closes stdin, sends nothing and waits Grace1; SIGTERM is
\* attempted by a call whose first wait is over, on a closed stdin, and starts
\* the wait of Grace2; a signal reaches a child only in such a step (SIGTERM)
\* or at the end of a second wait that is over (SIGKILL).
EscalationSteps ==
    /\ \A k \in (Len(calls) + 1)..Len(calls') :
          /\ calls'[k].pc = "wait1"
          /\ calls'[k].deadline = now + Grace1
          /\ proc'[calls'[k].obj].stdinEnded
          /\ \A o \in Objs : proc'[o].signals = proc[o].signals
    /\ \A k \in DOMAIN calls :
          AttemptsSIGTERM(k) =>
              /\ calls[k].deadline <= now
              /\ proc[calls[k].obj].stdinEnded
              /\ proc' = [proc EXCEPT ![calls[k].obj] = processKill(@, "SIGTERM")]
    /\ \A o \in Objs :
          proc'[o].signals # proc[o].signals =>
              \/ /\ proc'[o].signals = Append(proc[o].signals, "SIGTERM")
                 /\ \E k \in DOMAIN calls : calls[k].obj = o /\ AttemptsSIGTERM(k)
              \/ /\ proc'[o].signals = Append(proc[o].signals, "SIGKILL")
                 /\ \E k \in DOMAIN calls :
                       /\ calls[k].obj = o
                       /\ EndsSecondWait(k)
                       /\ calls[k].deadline <= now

\* C24 as stated: the steps of a kill come in the order above, and the
\* session of a kill that is waiting is registered.
C24_EscalationOrder ==
    [][/\ EscalationSteps
       /\ \A k \in DOMAIN calls : sessions[calls[k].id] = calls[k].obj]_vars

\* C24, amended: the steps of a kill come in the order above, and a kill that
\* is waiting does not unregister its session: a registered session leaves
\* the registry only in a step in which a kill of its id returns.
C24_EscalationOrderOwnSteps ==
    [][/\ EscalationSteps
       /\ \A k \in DOMAIN calls : AttemptsSIGTERM(k) => sessions' = sessions
       /\ \A id \in Ids :
             (sessions[id] # 0 /\ sessions'[id] # sessions[id]) =>
                 \E k \in DOMAIN calls : calls[k].id = id /\ Returns(k)]_vars

\* A kill is at the end of its second wait: stdin was closed, SIGTERM was sent
\* after the first wait, and the session is still registered
C24_Witness ==
    \E k \in DOMAIN calls :
        /\ calls[k].pc = "wait2"
        /\ calls[k].deadline <= now
        /\ proc[calls[k].obj].stdinEnded
        /\ proc[calls[k].obj].signals = <<"SIGTERM">>
        /\ sessions[calls[k].id] = calls[k].obj

\* C25: a kill calls process.kill('SIGTERM') at the end of its first wait
\* only on a child that is still executing.
C25_SIGTERMOnlyIfRunning ==
    [][\A k \in DOMAIN calls :
          AttemptsSIGTERM(k) => Running(proc[calls[k].obj])]_vars

\* C26: every kill in flight returns and every shutdown that is waiting
\* returns, whatever the children and the callers do meanwhile: from any
\* state with calls in flight a state with none is reached (no kill can be
\* started past the time horizon), and likewise for the waiting shutdowns.
C26_KillAndShutdownReturn ==
    /\ (calls # <<>>) ~> (calls = <<>>)
    /\ (DOMAIN sds # {}) ~> (DOMAIN sds = {})

\* A kill has returned although its child ignored SIGTERM and is still
\* executing, and no call is waiting
C26_Witness ==
    /\ calls = <<>>
    /\ DOMAIN sds = {}
    /\ \E o \in Objs :
          /\ sessions[state[o].id] = 0
          /\ Running(proc[o])
          /\ proc[o].signals = <<"SIGTERM">>

\* The result of detectPermissionPrompt for session a
prompt == detectPermissionPrompt("a")

\* The question lines among the last 30 lines of the output
recentQuestions ==
    {i \in 1..Len(promptLines) :
        Len(promptLines) - i < 30 /\ isQuestion(promptLines[i])}

\* C28: the detector's question line is the most recent line, among the last
\* 30 lines of the output it reads, that holds either phrasing in any case;
\* with no such line among those 30 there is no question line and no prompt
\* is returned, whatever the lines further up are.
C28_QuestionInLast30 ==
    LET q == proceedLineIdx(promptLines)
    IN /\ recentQuestions = {} => q = 0 /\ ~prompt.found
       /\ recentQuestions # {} =>
             /\ q \in recentQuestions
             /\ \A i \in recentQuestions : i <= q

\* The output holds a question line, 31 or more lines from its end, and none
\* after it: no prompt
C28_Witness ==
    /\ lastQuestion # 0
    /\ Len(promptLines) - lastQuestion >= 30
    /\ ~prompt.found

\* The lines after the question that hold a footer phrase or start with the
\* cursor
marks ==
    {i \in (lastQuestion + 1)..Len(promptLines) :
        isFooter(promptLines[i]) \/ isSelector(promptLines[i])}

\* C29: with the question in the last 30 lines and two numbered options right
\* after it, the prompt is returned when a footer phrase or a cursor line is
\* among the 15 lines after the question, and is not returned when there is
\* none or the nearest is further down.
C29_VerifiedWithin15 ==
    LET q == lastQuestion
        n == Len(promptLines)
    IN (/\ q # 0 /\ n - q < 30
        /\ q + 2 <= n
        /\ optionMatch(promptLines[q + 1]).ok
        /\ optionMatch(promptLines[q + 2]).ok)
           => (prompt.found <=> \E i \in marks : i - q <= 15)

\* The option lines the detector is to return: those among the 10 lines after
\* the question, above the first line with a footer phrase
expectedOptions ==
    LET q == lastQuestion
        idx == SelectSeq([i \in 1..Len(promptLines) |-> i],
                         LAMBDA i : /\ i > q /\ i <= q + 10
                                    /\ optionMatch(promptLines[i]).ok
                                    /\ \A f \in (q + 1)..i : ~isFooter(promptLines[f]))
    IN [k \in 1..Len(idx) |->
           [number |-> optionMatch(promptLines[idx[k]]).number,
            label |-> optionMatch(promptLines[idx[k]]).label]]

\* C30: the options of a prompt that is returned are the numbered option
\* lines among the 10 lines after the question, above the first footer
\* phrase, in the order of the output.
C30_OptionsWithin10 ==
    prompt.found => prompt.options = expectedOptions

\* The known tool keyword that line starts with (after white space, in any
\* case, as the line spells it), <<>> when it starts with none
keywordAtStart(line) ==
    LET a == skip(line, 1, WhiteSpace)
        ends == {b \in a..Len(line) :
                    /\ lowerStr(SubSeq(line, a, b)) \in {lowerStr(k) : k \in ToolKeywords}
                    /\ b = Len(line) \/ line[b + 1] \notin WordChars}
    IN IF ends = {} THEN <<>>
       ELSE SubSeq(line, a, CHOOSE b \in ends : TRUE)

\* C31: the tool of a returned prompt is the identifier or keyword of the
\* nearest line, from the question line up to 20 lines above it, that holds
\* a bullet followed by an identifier and "(" or starts with a known tool
\* keyword; with no such line there it is "Unknown", whatever the lines
\* further up are.
C31_ToolFromNearestLine ==
    LET lines == promptLines
        q == proceedLineIdx(lines)
        named == {i \in Max(1, q - 20)..q :
                     toolMatch(lines[i]) # <<>> \/ keywordAtStart(lines[i]) # <<>>}
        t == IF named = {} THEN 0 ELSE CHOOSE i \in named : \A k \in named : i >= k
    IN prompt.found =>
          prompt.tool = IF t = 0 THEN strUnknown
                        ELSE IF toolMatch(lines[t]) # <<>> THEN toolMatch(lines[t])
                        ELSE keywordAtStart(lines[t])

\* C32: the context of a returned prompt is the text, trimmed, of the lines
\* from 10 lines above the question (or from the first line) down to the
\* line of the last option returned, whatever lines lie between the question
\* and the options.
C32_ContextThroughLastOption ==
    LET lines == promptLines
        q == proceedLineIdx(lines)
        opts == SelectSeq([i \in 1..Len(lines) |-> i],
                          LAMBDA i : i > q /\ optionMatch(lines[i]).ok)
    IN prompt.found =>
          prompt.context =
              trim(joinLines(lines, Max(1, q - 10), opts[Len(prompt.options)]))

\* C33: a session whose child no kill has touched (its stdin was never
\* closed and no signal was sent to it) is in the registry.
C33_UntouchedStaysRegistered ==
    \A o \in Objs :
        (~proc[o].stdinEnded /\ proc[o].signals = <<>>)
            => sessions[state[o].id] = o

\* C34: when a shutdown() returns, no session is registered, whatever was
\* created while it was waiting.
C34_ShutdownLeavesEmpty ==
    [][(DOMAIN sds \ DOMAIN sds' # {}) => \A id \in Ids : sessions'[id] = 0]_vars

\* C35: on a session whose stdin a kill has closed, sendText and sendControl
\* do not return normally: they are rejected and nothing is handed to the
\* stream.
C35_NoWriteAfterClose ==
    \A id \in Ids :
        (sessions[id] # 0 /\ proc[sessions[id]].stdinEnded)
            => /\ sendTextResult(id) # "ok"
               /\ \A c \in {"C-c", "C-d", "C-z"} : sendControlResult(id, c) # "ok"

\* C36: a registered session whose child has exited, and on whose id no kill
\* is in flight, is offline, is listed, has its output readable and makes
\* create on its id fail as a duplicate; no step without a kill of its id
\* takes it out of the registry; and when a kill returns, create on its id
\* succeeds.
C36_ExitedStaysUntilKill ==
    [][/\ \A o \in Objs :
             (/\ proc[o].exited
              /\ sessions[state[o].id] = o
              /\ \A k \in DOMAIN calls : calls[k].id # state[o].id)
                 => /\ state[o].status = "offline"
                    /\ o \in list
                    /\ getOutputResult(state[o].id) = "ok"
                    /\ createResult(state[o].id, TRUE) = "DuplicateError"
                    /\ (\A k \in DOMAIN calls' : calls'[k].id # state[o].id)
                           => sessions'[state[o].id] = o
       /\ \A k \in DOMAIN calls :
             Returns(k) => sessions'[calls[k].id] = 0]_vars

\* C37: for a registered id, isAlive(id) returns false only when the child
\* has exited.
C37_DeadOnlyIfExited ==
    \A id \in Ids :
        (sessions[id] # 0 /\ ~isAliveResult(id)) => proc[sessions[id]].exited

====
